---- MODULE Spec2Model ----
(***************************************************************************)
(* The incremental event-stream reader StreamReader[T] of go-openai.       *)
(*                                                                         *)
(* Two variants of the reader exist in the source:                         *)
(*   "inline" : src/stream_reader.go   (inline error-prefix detection)     *)
(*   "plain"  : src/unnamed/part_000   (no inline detection)               *)
(* A session is one StreamReader reading one HTTP response body through a  *)
(* bufio.Reader.  Bytes are modelled as sequences of tokens; one token is  *)
(* a short fixed byte string (for instance "data:" or the space " ").      *)
(***************************************************************************)
EXTENDS Integers, Sequences, FiniteSets, TLC

(***************************************************************************)
(* Bounds of the model.                                                    *)
(***************************************************************************)
\* number of lines of the body that the model records
MaxLines == 3
\* number of Recv calls of one session
MaxCalls == 4
\* largest value of the Go type uint, scaled down (the real one is 2^64-1
\* or 2^32-1); emptyMessagesCount and EmptyMessagesLimit are of that type
MaxUint == 3
\* complete lines the bufio.Reader may still hold when the body is closed
MaxBuffered == 1

(***************************************************************************)
(* Bytes.                                                                  *)
(***************************************************************************)
SP == " "
CR == "\\r"
LF == "\\n"
\* the bytes bytes.TrimSpace removes
WhiteSpace == {SP, CR, LF}

Variants == {"inline", "plain"}

headerData == <<"data:", SP>>

OpenError == "{\"error\":"
errorPrefix == <<"data:", SP, OpenError>>

DoneMark == "[DONE]"
Json1 == "{\"id\":\"1\"}"
Json2 == "{\"id\":\"2\"}"
JsonEmpty == "{}"
JsonBad == "{not valid json"
Detail == "{\"message\":\"bad request\"}"
CloseObj == "}"

\* a JSON error body  {"error":{"message":"bad request"}}
ErrorBody == <<OpenError, Detail, CloseObj>>

\* The lines a server sends, each ended by LF.
BlankLine == <<LF>>
Payload1 == headerData \o <<Json1, LF>>
Payload2 == <<SP>> \o headerData \o <<Json2, CR, LF>>
DoneLine == headerData \o <<DoneMark, LF>>
BadPayload == headerData \o <<JsonBad, LF>>
ErrorLine == ErrorBody \o <<LF>>
InlineErrorLine == headerData \o ErrorBody \o <<LF>>
EmptyObjLine == <<JsonEmpty, CR, LF>>

Lines ==
  {BlankLine, Payload1, Payload2, DoneLine, BadPayload, ErrorLine,
   InlineErrorLine, EmptyObjLine}

\* The lines the reader treats as non-payload lines: those without the
\* "data: " prefix and, for the variant with inline detection, the line that
\* starts with data: {"error":
NonPayloadLines(v) ==
  {BlankLine, ErrorLine, EmptyObjLine}
    \cup (IF v = "inline" THEN {InlineErrorLine} ELSE {})

\* What ReadBytes hands back next to a read failure: the bytes of a last
\* line that has no LF.
Fragments ==
  {<<>>, headerData \o <<DoneMark>>, headerData \o <<Json1>>, ErrorBody}

(***************************************************************************)
(* Errors are tuples of strings, <<>> is nil.                              *)
(***************************************************************************)
Nil == <<>>
EOF == <<"io.EOF">>
ErrUnexpectedEOF == <<"io.ErrUnexpectedEOF">>
ErrBodyClosed == <<"http: read on closed response body">>
ErrTooManyEmptyStreamMessages == <<"stream has sent too many empty messages">>
ErrSyntax == <<"json: syntax error">>
ErrWrite == <<"error accumulator write error">>

\* a nil *APIError inside a decoded envelope
NilDetail == "<nil>"

\* fmt.Errorf("error, %w", respErr.Error)
WrapError(detail) == <<"error, %w", detail>>

\* *new(T)
ZeroValue == [ID |-> ""]

(***************************************************************************)
(* package bytes                                                           *)
(***************************************************************************)
RECURSIVE TrimLeft(_)
TrimLeft(s) ==
  IF s = <<>> THEN s
  ELSE IF Head(s) \in WhiteSpace THEN TrimLeft(Tail(s)) ELSE s

RECURSIVE TrimRight(_)
TrimRight(s) ==
  IF s = <<>> THEN s
  ELSE IF s[Len(s)] \in WhiteSpace THEN TrimRight(SubSeq(s, 1, Len(s) - 1))
  ELSE s

TrimSpace(s) == TrimRight(TrimLeft(s))

HasPrefix(s, prefix) ==
  /\ Len(s) >= Len(prefix)
  /\ SubSeq(s, 1, Len(prefix)) = prefix

TrimPrefix(s, prefix) ==
  IF HasPrefix(s, prefix) THEN SubSeq(s, Len(prefix) + 1, Len(s)) ELSE s

(***************************************************************************)
(* utils.Unmarshaler (encoding/json).  JSON text is a sequence of tokens;  *)
(* white space between tokens is insignificant.                            *)
(***************************************************************************)
NoSpace(s) == SelectSeq(s, LAMBDA b : b \notin WhiteSpace)

\* the JSON object the bytes spell, or "invalid"
ParseJSON(s) ==
  LET t == NoSpace(s) IN
  IF t = <<Json1>> THEN [kind |-> "object", id |-> "1", error |-> NilDetail]
  ELSE IF t = <<Json2>> THEN [kind |-> "object", id |-> "2", error |-> NilDetail]
  ELSE IF t = <<JsonEmpty>> THEN [kind |-> "object", id |-> "", error |-> NilDetail]
  ELSE IF t = ErrorBody THEN [kind |-> "object", id |-> "", error |-> Detail]
  ELSE [kind |-> "invalid", id |-> "", error |-> NilDetail]

\* Unmarshal(noPrefixLine, &response), response of type T
UnmarshalResponse(s) ==
  LET j == ParseJSON(s) IN
  IF j.kind = "invalid" THEN [err |-> ErrSyntax, response |-> ZeroValue]
  ELSE [err |-> Nil, response |-> [ID |-> j.id]]

\* Unmarshal(errBytes, &errResp), errResp of type *ErrorResponse
UnmarshalErrorResponse(s) ==
  LET j == ParseJSON(s) IN
  IF j.kind = "invalid" THEN [err |-> ErrSyntax, isNil |-> TRUE, Error |-> NilDetail]
  ELSE [err |-> Nil, isNil |-> FALSE, Error |-> j.error]

(***************************************************************************)
(* The state of one session.                                               *)
(***************************************************************************)
VARIABLES
  variant,             \* which of the two source files this StreamReader is
  EmptyMessagesLimit,  \* StreamReader.EmptyMessagesLimit
  isFinished,          \* StreamReader.isFinished
  ErrAccumulator,      \* the bytes held by StreamReader.ErrAccumulator
  writeFails,          \* the ErrAccumulator is one whose Write returns an error
  lines,               \* the lines Reader.ReadBytes has returned so far
  unrecorded,          \* blank lines were read after MaxLines recorded ones
  srcErr,              \* the failure the open body has reached, or Nil
  closed,              \* Response.Body.Close() has been called
  buffered,            \* complete lines left in the bufio.Reader of a closed body
  pc,                  \* "idle", or "processLines" inside a Recv call
  emptyMessagesCount,  \* local of processLines
  hasErrorPrefix,      \* local of processLines (src/stream_reader.go only)
  reads,               \* ReadBytes calls made by the current or last Recv call
  nonPayload,          \* non-payload lines the current or last Recv call has read
  written,             \* lines the current or last Recv call has written to the accumulator
  closedAt,            \* the number of Recv calls that had returned when Close was called, or -1
  lastRead,            \* what the last ReadBytes call returned
  fates,               \* for each line of lines, what processLines did with it
  results,             \* what the Recv calls returned, in order
  pair,                \* one body read by a reader of each variant, side by side
  chat                 \* the calls of CreateChatCompletion made so far

stream ==
  <<variant, EmptyMessagesLimit, writeFails, isFinished, ErrAccumulator, lines,
    unrecorded, srcErr, closed, buffered, pc, emptyMessagesCount, hasErrorPrefix, reads,
    nonPayload, written, closedAt, lastRead, fates, results>>

vars == <<stream, pair, chat>>

\* the state of the specifications that do not follow one stream
aside == <<pair, chat>>

config == <<variant, EmptyMessagesLimit, writeFails>>
source == <<lines, unrecorded, srcErr, closed, buffered>>
locals == <<emptyMessagesCount, hasErrorPrefix>>

NoRead == [rawLine |-> <<>>, readErr |-> Nil]

observed == <<reads, nonPayload, written, fates>>

\* the counters reads, nonPayload and written only observe; they stop at this value
CountCap == MaxUint + 2

Bump(n) == IF n < CountCap THEN n + 1 ELSE n

\* a reader that has read nothing yet
NewSession == [pos |-> 1, isFinished |-> FALSE, ErrAccumulator |-> <<>>, results |-> <<>>]

NoPair ==
  [body |-> <<>>, tail |-> [rawLine |-> <<>>, readErr |-> EOF],
   EmptyMessagesLimit |-> 0, writeFails |-> FALSE,
   inline |-> NewSession, plain |-> NewSession]

NewStream ==
  /\ isFinished = FALSE
  /\ ErrAccumulator = <<>>
  /\ lines = <<>>
  /\ unrecorded = FALSE
  /\ srcErr = Nil
  /\ closed = FALSE
  /\ buffered = 0
  /\ pc = "idle"
  /\ emptyMessagesCount = 0
  /\ hasErrorPrefix = FALSE
  /\ reads = 0
  /\ nonPayload = 0
  /\ written = 0
  /\ closedAt = -1
  /\ lastRead = NoRead
  /\ fates = <<>>
  /\ results = <<>>

Init ==
  /\ variant \in Variants
  /\ EmptyMessagesLimit \in 0..MaxUint
  /\ writeFails \in BOOLEAN
  /\ NewStream
  /\ pair = NoPair
  /\ chat = <<>>

(***************************************************************************)
(* Reader.ReadBytes('\n') on the bufio.Reader over Response.Body.          *)
(***************************************************************************)
\* the lines the server may send next
NextLines == IF Len(lines) < MaxLines THEN Lines ELSE {BlankLine}

ReadBytes ==
  IF closed /\ buffered = 0
    THEN {[rawLine |-> <<>>, readErr |-> ErrBodyClosed]}
  ELSE IF closed
    THEN {[rawLine |-> l, readErr |-> Nil] : l \in NextLines}
  ELSE IF srcErr # Nil
    THEN {[rawLine |-> <<>>, readErr |-> srcErr]}
  ELSE {[rawLine |-> l, readErr |-> Nil] : l \in NextLines}
       \cup {[rawLine |-> f, readErr |-> e] :
               f \in Fragments, e \in {EOF, ErrUnexpectedEOF}}

\* the line source after ReadBytes returned rd
AfterRead(rd) ==
  /\ lines' = IF rd.readErr = Nil /\ Len(lines) < MaxLines
                THEN Append(lines, rd.rawLine) ELSE lines
  /\ unrecorded' = (unrecorded \/ (rd.readErr = Nil /\ Len(lines) >= MaxLines))
  /\ srcErr' = IF rd.readErr # Nil /\ ~closed THEN rd.readErr ELSE srcErr
  /\ buffered' = IF rd.readErr = Nil /\ closed THEN buffered - 1 ELSE buffered
  /\ closed' = closed

(***************************************************************************)
(* StreamReader.unmarshalError and utils.ErrorAccumulator.                 *)
(***************************************************************************)
NoErrResp == [isNil |-> TRUE, Error |-> NilDetail]

\* unmarshalError without "if err != nil { errResp = nil }"
unmarshalError_KeepsErrResp(errBytes) ==
  IF Len(errBytes) = 0 THEN NoErrResp
  ELSE [isNil |-> FALSE, Error |-> UnmarshalErrorResponse(errBytes).Error]

\* errResp, the *ErrorResponse decoded from the accumulated bytes
unmarshalError(errBytes) ==
  IF Len(errBytes) = 0 THEN NoErrResp
  ELSE LET u == UnmarshalErrorResponse(errBytes) IN
       IF u.err # Nil THEN NoErrResp
       ELSE [isNil |-> u.isNil, Error |-> u.Error]

\* ErrAccumulator.Write(p): the error it returns and the bytes it then holds.
\* The accumulator is either the default one over a bytes.Buffer, whose Write
\* returns no error, or one whose Write always fails and keeps nothing.
Write(acc, p, fails) ==
  IF fails THEN [err |-> ErrWrite, acc |-> acc]
  ELSE [err |-> Nil, acc |-> acc \o p]

(***************************************************************************)
(* One iteration of the loop of StreamReader.processLines.                 *)
(***************************************************************************)
\* StopOnRead that looks at hasErrorPrefix alone
StopOnRead_IgnoresReadErr(readErr, hep) == hep

\* if readErr != nil || hasErrorPrefix
StopOnRead(readErr, hep) == readErr # Nil \/ hep

\* ReadFailure without the look at the accumulator
ReadFailure_Raw(respErr, readErr) == readErr

\* the error returned on that branch
ReadFailure(respErr, readErr) ==
  IF ~respErr.isNil THEN WrapError(respErr.Error) ELSE readErr

\* IsErrorLine that tests for headerData in place of errorPrefix
IsErrorLine_AnyData(v, noSpaceLine) == v = "inline" /\ HasPrefix(noSpaceLine, headerData)

\* bytes.HasPrefix(noSpaceLine, errorPrefix), a test only the variant
\* of src/stream_reader.go makes
IsErrorLine(v, noSpaceLine) == v = "inline" /\ HasPrefix(noSpaceLine, errorPrefix)

\* NonPayload with the negation lost
NonPayload_NoNegation(noSpaceLine, hep) == HasPrefix(noSpaceLine, headerData) \/ hep

\* if !bytes.HasPrefix(noSpaceLine, headerData) || hasErrorPrefix
NonPayload(noSpaceLine, hep) == ~HasPrefix(noSpaceLine, headerData) \/ hep

\* Accumulated that leaves the prefix on the line
Accumulated_NoStrip(noSpaceLine, hep) == noSpaceLine

\* the bytes handed to ErrAccumulator.Write
Accumulated(noSpaceLine, hep) ==
  IF hep THEN TrimPrefix(noSpaceLine, headerData) ELSE noSpaceLine

\* Increment that forgets to count
Increment_Forgotten(count) == count

\* emptyMessagesCount++ on a uint
Increment(count) == (count + 1) % (MaxUint + 1)

\* LimitExceeded with >= for >
LimitExceeded_AtLimit(count, limit) == count >= limit

\* if emptyMessagesCount > stream.EmptyMessagesLimit
LimitExceeded(count, limit) == count > limit

\* IsDone that compares the line before its prefix is cut
IsDone_WithPrefix(noPrefixLine) == noPrefixLine = headerData \o <<DoneMark>>

\* if string(noPrefixLine) == "[DONE]"
IsDone(noPrefixLine) == noPrefixLine = <<DoneMark>>

Return(ret, response, err, acc, count, hep) ==
  [ret |-> ret, response |-> response, err |-> err, acc |-> acc,
   count |-> count, hep |-> hep]

\* The iteration that reads rd.  ret is "continue" or names the return
\* statement taken.
Iteration(v, limit, fails, acc, count, hep, rd) ==
  IF StopOnRead(rd.readErr, hep)
    THEN Return("readFailed", ZeroValue,
                ReadFailure(unmarshalError(acc), rd.readErr), acc, count, hep)
  ELSE
    LET noSpaceLine == TrimSpace(rd.rawLine)
        hep2 == hep \/ IsErrorLine(v, noSpaceLine)
    IN
    IF NonPayload(noSpaceLine, hep2)
      THEN LET w == Write(acc, Accumulated(noSpaceLine, hep2), fails) IN
           IF w.err # Nil
             THEN Return("writeFailed", ZeroValue, w.err, w.acc, count, hep2)
           ELSE
             LET acc2 == w.acc
                 count2 == Increment(count)
             IN
             IF LimitExceeded(count2, limit)
               THEN Return("tooMany", ZeroValue, ErrTooManyEmptyStreamMessages,
                           acc2, count2, hep2)
             ELSE Return("continue", ZeroValue, Nil, acc2, count2, hep2)
    ELSE
      LET noPrefixLine == TrimPrefix(noSpaceLine, headerData) IN
      IF IsDone(noPrefixLine)
        THEN Return("done", ZeroValue, EOF, acc, count, hep2)
      ELSE
        LET u == UnmarshalResponse(noPrefixLine) IN
        IF u.err # Nil
          THEN Return("decodeFailed", ZeroValue, u.err, acc, count, hep2)
        ELSE Return("value", u.response, Nil, acc, count, hep2)

Result(r) == [response |-> r.response, err |-> r.err, ret |-> r.ret]

\* What an iteration that ends in ret has done with the line it read: written
\* it to the accumulator, failed to write it, returned its value, failed to
\* decode it, taken it for [DONE], or dropped it (the branch of hasErrorPrefix).
Fate(ret) ==
  IF ret \in {"continue", "tooMany"} THEN "written"
  ELSE IF ret = "readFailed" THEN "dropped"
  ELSE ret

\* a session that is marked finished by every return
Finishes_OnAnyReturn(ret) == ret # "continue"

\* stream.isFinished = true, on the [DONE] branch alone
Finishes(ret) == ret = "done"

(***************************************************************************)
(* The operations of StreamReader.                                         *)
(***************************************************************************)
\* Recv without its check of isFinished
CheckFinished_Never(fin) == FALSE

\* if stream.isFinished
CheckFinished(fin) == fin

\* Recv on a finished session
RecvFinished ==
  /\ pc = "idle"
  /\ Len(results) < MaxCalls
  /\ CheckFinished(isFinished)
  /\ results' = Append(results, [response |-> ZeroValue, err |-> EOF, ret |-> "finished"])
  /\ reads' = 0
  /\ nonPayload' = 0
  /\ written' = 0
  /\ UNCHANGED <<aside, config, isFinished, ErrAccumulator, source, pc, locals, closedAt,
                 lastRead, fates>>

\* Recv that empties the accumulator on its way into processLines
RecvStart_ResetsAccumulator ==
  /\ pc = "idle"
  /\ Len(results) < MaxCalls
  /\ ~CheckFinished(isFinished)
  /\ pc' = "processLines"
  /\ emptyMessagesCount' = 0
  /\ hasErrorPrefix' = FALSE
  /\ ErrAccumulator' = <<>>
  /\ reads' = 0
  /\ nonPayload' = 0
  /\ written' = 0
  /\ UNCHANGED <<aside, config, isFinished, source, closedAt, lastRead, fates, results>>

\* Recv that carries emptyMessagesCount over from the call before
RecvStart_KeepsCount ==
  /\ pc = "idle"
  /\ Len(results) < MaxCalls
  /\ ~CheckFinished(isFinished)
  /\ pc' = "processLines"
  /\ hasErrorPrefix' = FALSE
  /\ reads' = 0
  /\ nonPayload' = 0
  /\ written' = 0
  /\ UNCHANGED <<aside, config, isFinished, ErrAccumulator, source, closedAt, lastRead,
                 fates, results, emptyMessagesCount>>

\* Recv entering processLines
RecvStart ==
  /\ pc = "idle"
  /\ Len(results) < MaxCalls
  /\ ~CheckFinished(isFinished)
  /\ pc' = "processLines"
  /\ emptyMessagesCount' = 0
  /\ hasErrorPrefix' = FALSE
  /\ reads' = 0
  /\ nonPayload' = 0
  /\ written' = 0
  /\ UNCHANGED <<aside, config, isFinished, ErrAccumulator, source, closedAt, lastRead,
                 fates, results>>

\* one iteration of processLines; on a return, Recv returns
ProcessLine(rd) ==
  /\ pc = "processLines"
  /\ rd \in ReadBytes
  /\ AfterRead(rd)
  /\ lastRead' = rd
  /\ reads' = Bump(reads)
  /\ LET r == Iteration(variant, EmptyMessagesLimit, writeFails, ErrAccumulator,
                        emptyMessagesCount, hasErrorPrefix, rd)
     IN
     /\ ErrAccumulator' = r.acc
     /\ emptyMessagesCount' = r.count
     /\ hasErrorPrefix' = r.hep
     /\ nonPayload' = IF rd.readErr = Nil /\ rd.rawLine \in NonPayloadLines(variant)
                         THEN Bump(nonPayload) ELSE nonPayload
     /\ written' = IF r.ret \in {"continue", "tooMany"} THEN Bump(written) ELSE written
     /\ fates' = IF rd.readErr = Nil /\ Len(lines) < MaxLines
                   THEN Append(fates, Fate(r.ret)) ELSE fates
     /\ isFinished' = (isFinished \/ Finishes(r.ret))
     /\ pc' = IF r.ret = "continue" THEN "processLines" ELSE "idle"
     /\ results' = IF r.ret = "continue" THEN results
                   ELSE Append(results, Result(r))
  /\ UNCHANGED <<aside, config, closedAt>>

\* Close that also marks the session finished
Close_Finishes ==
  /\ pc = "idle"
  /\ ~closed
  /\ closed' = TRUE
  /\ buffered' \in IF lines # <<>> /\ srcErr = Nil THEN 0..MaxBuffered ELSE {0}
  /\ closedAt' = Len(results)
  /\ isFinished' = TRUE
  /\ UNCHANGED <<aside, config, ErrAccumulator, lines, unrecorded, srcErr,
                 pc, locals, observed, lastRead, results>>

\* Close: stream.Response.Body.Close().  A bufio.Reader that has read from
\* the body may still hold complete lines.
Close ==
  /\ pc = "idle"
  /\ ~closed
  /\ closed' = TRUE
  /\ buffered' \in IF lines # <<>> /\ srcErr = Nil THEN 0..MaxBuffered ELSE {0}
  /\ closedAt' = Len(results)
  /\ UNCHANGED <<aside, config, isFinished, ErrAccumulator, lines, unrecorded, srcErr,
                 pc, locals, observed, lastRead, results>>

Next ==
  \/ RecvFinished
  \/ RecvStart
  \/ \E rd \in ReadBytes : ProcessLine(rd)
  \/ Close

Spec == Init /\ [][Next]_vars

(***************************************************************************)
(* The two variants side by side: one body, given in full, is read by a    *)
(* reader of src/stream_reader.go and by one of src/unnamed/part_000 under *)
(* the same sequence of Recv calls.                                        *)
(***************************************************************************)
\* the bodies: up to MaxLines lines, then a read failure
Bodies == UNION {[1..n -> Lines] : n \in 0..MaxLines}

Tails ==
  {[rawLine |-> f, readErr |-> EOF] : f \in Fragments}
    \cup {[rawLine |-> <<>>, readErr |-> ErrUnexpectedEOF]}

\* ReadBytes of a reader that has read pos - 1 lines of the body
ReadAt(p, pos) ==
  IF pos <= Len(p.body) THEN [rawLine |-> p.body[pos], readErr |-> Nil] ELSE p.tail

\* processLines: the iterations of one call, up to its return
RECURSIVE processLines(_, _, _, _, _, _)
processLines(v, p, pos, acc, count, hep) ==
  LET rd == ReadAt(p, pos)
      r == Iteration(v, p.EmptyMessagesLimit, p.writeFails, acc, count, hep, rd)
      pos2 == IF rd.readErr = Nil THEN pos + 1 ELSE pos
  IN
  IF r.ret = "continue" THEN processLines(v, p, pos2, r.acc, r.count, r.hep)
  ELSE [pos |-> pos2, ErrAccumulator |-> r.acc, r |-> r]

\* one Recv call of the reader s of variant v
Recv(v, p, s) ==
  IF CheckFinished(s.isFinished)
    THEN [s EXCEPT !.results =
            Append(@, [response |-> ZeroValue, err |-> EOF, ret |-> "finished"])]
  ELSE
    LET o == processLines(v, p, s.pos, s.ErrAccumulator, 0, FALSE) IN
    [pos |-> o.pos,
     isFinished |-> (s.isFinished \/ Finishes(o.r.ret)),
     ErrAccumulator |-> o.ErrAccumulator,
     results |-> Append(s.results, Result(o.r))]

InitEq ==
  /\ variant = "inline"
  /\ EmptyMessagesLimit = 0
  /\ writeFails = FALSE
  /\ NewStream
  /\ chat = <<>>
  /\ pair \in [body : Bodies, tail : Tails, EmptyMessagesLimit : 0..MaxUint,
               writeFails : BOOLEAN, inline : {NewSession}, plain : {NewSession}]

\* both readers make their next Recv call
RecvBoth ==
  /\ Len(pair.inline.results) < MaxCalls
  /\ pair' = [pair EXCEPT !.inline = Recv("inline", pair, @),
                          !.plain = Recv("plain", pair, @)]
  /\ UNCHANGED <<stream, chat>>

NextEq == RecvBoth

SpecEq == InitEq /\ [][NextEq]_vars

(***************************************************************************)
(* Client.CreateChatCompletion (src/unnamed/part_001).                     *)
(***************************************************************************)
chatCompletionsSuffix == "/chat/completions"

ErrChatCompletionInvalidModel == <<"this model is not supported with this method">>
ErrChatCompletionStreamNotSupported == <<"streaming is not supported with this method">>

\* what c.newRequest and c.sendRequest may fail with
ErrNewRequest == <<"newRequest failed">>
ErrSendRequest == <<"sendRequest failed">>

Models == {"gpt-4", "gpt-3.5-turbo", "text-davinci-003"}

\* ChatCompletionRequest, as far as CreateChatCompletion looks at it
Requests == [Stream : BOOLEAN, Model : Models]

\* the chat endpoint does not serve the completion models
checkEndpointSupportsModel(endpoint, model) ==
  ~(endpoint = chatCompletionsSuffix /\ model = "text-davinci-003")

\* the zero ChatCompletionResponse and the one sendRequest decodes
ZeroResponse == [ID |-> "", Model |-> ""]
Decoded(request) == [ID |-> "chatcmpl-1", Model |-> request.Model]

\* what one call returns and the requests it has built and sent (io)
Outcome(response, err, io) == [response |-> response, err |-> err, io |-> io]

\* CreateChatCompletion that tests the model before request.Stream
CreateChatCompletion_ModelFirst(request, newRequestErr, sendRequestErr) ==
  IF ~checkEndpointSupportsModel(chatCompletionsSuffix, request.Model)
    THEN Outcome(ZeroResponse, ErrChatCompletionInvalidModel, <<>>)
  ELSE IF request.Stream
    THEN Outcome(ZeroResponse, ErrChatCompletionStreamNotSupported, <<>>)
  ELSE IF newRequestErr # Nil
    THEN Outcome(ZeroResponse, newRequestErr, <<"newRequest">>)
  ELSE IF sendRequestErr # Nil
    THEN Outcome(ZeroResponse, sendRequestErr, <<"newRequest", "sendRequest">>)
  ELSE Outcome(Decoded(request), Nil, <<"newRequest", "sendRequest">>)

\* CreateChatCompletion, given what newRequest and sendRequest return
CreateChatCompletion(request, newRequestErr, sendRequestErr) ==
  IF request.Stream
    THEN Outcome(ZeroResponse, ErrChatCompletionStreamNotSupported, <<>>)
  ELSE IF ~checkEndpointSupportsModel(chatCompletionsSuffix, request.Model)
    THEN Outcome(ZeroResponse, ErrChatCompletionInvalidModel, <<>>)
  ELSE IF newRequestErr # Nil
    THEN Outcome(ZeroResponse, newRequestErr, <<"newRequest">>)
  ELSE IF sendRequestErr # Nil
    THEN Outcome(ZeroResponse, sendRequestErr, <<"newRequest", "sendRequest">>)
  ELSE Outcome(Decoded(request), Nil, <<"newRequest", "sendRequest">>)

InitChat ==
  /\ variant = "inline"
  /\ EmptyMessagesLimit = 0
  /\ writeFails = FALSE
  /\ NewStream
  /\ pair = NoPair
  /\ chat = <<>>

\* the client makes one call
Call ==
  /\ Len(chat) < MaxCalls
  /\ \E request \in Requests, newRequestErr \in {Nil, ErrNewRequest},
        sendRequestErr \in {Nil, ErrSendRequest} :
       chat' = Append(chat, [request |-> request,
                             out |-> CreateChatCompletion(request, newRequestErr,
                                                          sendRequestErr)])
  /\ UNCHANGED <<stream, pair>>

NextChat == Call

SpecChat == InitChat /\ [][NextChat]_vars

TypeOK ==
  /\ variant \in Variants
  /\ EmptyMessagesLimit \in 0..MaxUint
  /\ isFinished \in BOOLEAN
  /\ Len(lines) <= MaxLines
  /\ pc \in {"idle", "processLines"}
  /\ emptyMessagesCount \in 0..MaxUint
  /\ Len(results) <= MaxCalls

(***************************************************************************)
(* Properties.                                                             *)
(***************************************************************************)
LastResult == results[Len(results)]

\* a Recv call returns in this step
Returns == Len(results') = Len(results) + 1

\* Inside a Recv call every step is one iteration of processLines, which
\* reads a line: lastRead' is what that ReadBytes call returns.
InLoop == pc = "processLines"

\* an error made by fmt.Errorf("error, %w", ...)
IsWrapped(err) == Len(err) = 2 /\ err[1] = "error, %w"

\* the result Recv' returns in this step
Returned == results'[Len(results')]

\* C1: in both variants, once isFinished is set it is never cleared, and
\* every later Recv call returns (zero value, io.EOF) without a read on the
\* line source and without a change of the error accumulator.
C1_FinishedIsFinal ==
  [][isFinished =>
       /\ isFinished'
       /\ pc' = "idle"
       /\ ErrAccumulator' = ErrAccumulator
       /\ <<lines, unrecorded, srcErr, lastRead>>' = <<lines, unrecorded, srcErr, lastRead>>
       /\ results' # results =>
            /\ Returns
            /\ SubSeq(results', 1, Len(results)) = results
            /\ Returned.response = ZeroValue
            /\ Returned.err = EOF
            /\ reads' = 0]_vars

\* a Recv call made after the one that read [DONE] has returned
C1_Witness ==
  /\ isFinished
  /\ Len(results) >= 2
  /\ LastResult.ret = "finished"
  /\ results[Len(results) - 1].ret = "done"
  /\ ErrAccumulator # <<>>

\* C2.  The value a payload line carries, for the three lines whose payload
\* is JSON that decodes into T.
C2_Value(l) ==
  IF l = Payload1 THEN [ID |-> "1"]
  ELSE IF l = Payload2 THEN [ID |-> "2"]
  ELSE ZeroValue

\* what the i-th Recv call is to return on a stream of payload lines that
\* ends with data: [DONE]
C2_Expected(l) ==
  IF l = DoneLine THEN [response |-> ZeroValue, err |-> EOF]
  ELSE [response |-> C2_Value(l), err |-> Nil]

\* every line read so far is one of payloads, but for a last data: [DONE];
\* no read has failed
C2_StreamSoFar(payloads) ==
  /\ pc = "idle"
  /\ lastRead.readErr = Nil
  /\ ~unrecorded
  /\ \A i \in 1..Len(lines) :
       \/ lines[i] \in payloads
       \/ i = Len(lines) /\ lines[i] = DoneLine

C2_InOrder ==
  /\ Len(results) >= Len(lines)
  /\ \A i \in 1..Len(lines) :
       /\ results[i].response = C2_Expected(lines[i]).response
       /\ results[i].err = C2_Expected(lines[i]).err
  /\ (lines # <<>> /\ lines[Len(lines)] = DoneLine) => isFinished
  /\ \A i \in (Len(lines) + 1)..Len(results) :
       isFinished /\ results[i].response = ZeroValue /\ results[i].err = EOF

\* C2 as claimed: on a stream of n payload lines data: <decodable json>
\* followed by data: [DONE], the first n Recv calls return the n values in
\* stream order and the (n+1)-th returns io.EOF and sets isFinished (here
\* for an accumulator whose Write succeeds).
C2_Original ==
  (C2_StreamSoFar({Payload1, Payload2, InlineErrorLine}) /\ ~writeFails) => C2_InOrder

\* C2 amended: the same, for payload lines that the variant with inline
\* detection does not take for an error line (none starts with
\* data: {"error": after trimming).
C2_RoundTrip ==
  C2_StreamSoFar({Payload1, Payload2, InlineErrorLine} \ NonPayloadLines(variant))
    => C2_InOrder

\* two different values, then [DONE], then one more call
C2_Witness ==
  /\ variant = "inline"
  /\ lines = <<Payload2, Payload1, DoneLine>>
  /\ Len(results) = 4
  /\ results[1].response = [ID |-> "2"]
  /\ results[2].response = [ID |-> "1"]
  /\ results[4].err = EOF

\* C3: every Recv call returns a value decoded from a payload line with a
\* nil error, or io.EOF, or another non-nil error; never a nil error next
\* to a value that was not decoded from a payload line.
C3_ThreeOutcomes ==
  \A i \in 1..Len(results) : results[i].err = Nil => results[i].ret = "value"

\* C4: when a line read fails and the accumulated bytes decode into an
\* error envelope with an inner error detail, Recv returns the wrapped error
\* that carries the detail, not the read failure.
C4_ServerErrorFirst ==
  [][(InLoop /\ lastRead'.readErr # Nil /\ ErrAccumulator = ErrorBody) =>
       /\ Returns
       /\ Returned.response = ZeroValue
       /\ Returned.err = WrapError(Detail)]_vars

\* the body closes after the line {"error":{"message":"bad request"}}
C4_Witness ==
  /\ pc = "idle"
  /\ lines = <<ErrorLine>>
  /\ lastRead.readErr = EOF
  /\ Len(results) = 1
  /\ LastResult.err = WrapError(Detail)

\* the accumulations that are one JSON object
C5_Decodable == {ErrorBody, <<JsonEmpty>>}

\* C5: when a line read fails and the accumulator is empty or does not
\* decode into an error envelope, Recv returns the read failure itself, with
\* the zero value, and does not set isFinished.
C5_ReadFailurePropagated ==
  [][(InLoop /\ lastRead'.readErr # Nil /\ ErrAccumulator \notin C5_Decodable) =>
       /\ Returns
       /\ Returned.response = ZeroValue
       /\ Returned.err = lastRead'.readErr
       /\ ~isFinished']_vars

\* a read failure after two error bodies, which together are not JSON
C5_Witness ==
  /\ pc = "idle"
  /\ ErrAccumulator = ErrorBody \o ErrorBody
  /\ lastRead.readErr = ErrUnexpectedEOF
  /\ LastResult.err = ErrUnexpectedEOF
  /\ ~isFinished

\* C6: when the accumulated bytes decode into an envelope without an inner
\* error detail (the accumulator holds {}), Recv returns no wrapped error
\* but the read failure.
C6_NoDetailNoWrap ==
  [][(InLoop /\ lastRead'.readErr # Nil /\ ErrAccumulator = <<JsonEmpty>>) =>
       /\ Returns
       /\ ~IsWrapped(Returned.err)
       /\ Returned.err = lastRead'.readErr]_vars

\* the last Recv call went through processLines and has returned
C7_Returned == pc = "idle" /\ results # <<>> /\ LastResult.ret # "finished"

\* C7 as claimed: a Recv call fails with ErrTooManyEmptyStreamMessages
\* exactly when the number of non-payload lines it has consumed exceeds
\* EmptyMessagesLimit (here for an accumulator whose Write succeeds).
C7_Original ==
  (C7_Returned /\ ~writeFails) =>
    (LastResult.err = ErrTooManyEmptyStreamMessages <=> nonPayload > EmptyMessagesLimit)

\* C7 amended: for EmptyMessagesLimit below the largest uint, a Recv call
\* fails with ErrTooManyEmptyStreamMessages exactly when the number of lines
\* it has written to the accumulator exceeds EmptyMessagesLimit: on line
\* EmptyMessagesLimit + 1 of them and not earlier.
C7_TooManyEmptyMessages ==
  EmptyMessagesLimit < MaxUint =>
    /\ InLoop => written <= EmptyMessagesLimit
    /\ C7_Returned =>
         /\ LastResult.err = ErrTooManyEmptyStreamMessages <=> written > EmptyMessagesLimit
         /\ written <= EmptyMessagesLimit + 1

\* EmptyMessagesLimit = 2: two non-payload lines are tolerated, the third
\* ends the call
C7_Witness ==
  /\ EmptyMessagesLimit = 2
  /\ pc = "idle"
  /\ Len(lines) = 3
  /\ written = 3
  /\ nonPayload = 3
  /\ Len(results) = 1
  /\ LastResult.err = ErrTooManyEmptyStreamMessages

\* what C8 says of a step that reads data: {not valid json
C8_DecodeError ==
  /\ Returns
  /\ Returned.response = ZeroValue
  /\ Returned.err = ErrSyntax
  /\ ErrAccumulator' = ErrAccumulator
  /\ ~isFinished'

C9_Original == reads <= EmptyMessagesLimit + 1

\* C9 amended: the same for EmptyMessagesLimit below the largest uint.
C9_BoundedReads == EmptyMessagesLimit < MaxUint => reads <= EmptyMessagesLimit + 1

\* a call that returns on read EmptyMessagesLimit + 1, all blank lines
C9_Witness ==
  /\ EmptyMessagesLimit = MaxUint - 1
  /\ pc = "idle"
  /\ reads = EmptyMessagesLimit + 1
  /\ nonPayload = reads
  /\ LastResult.err = ErrTooManyEmptyStreamMessages

\* Close is called in this step
C10_Closes == ~closed /\ closed'

C10_CloseKeeps ==
  C10_Closes => isFinished' = isFinished /\ ErrAccumulator' = ErrAccumulator

\* the failure a read on the closed body ends in
C10_Failure ==
  /\ Returned.response = ZeroValue
  /\ Returned.err = ErrBodyClosed \/ IsWrapped(Returned.err)

\* C10 as claimed: Close leaves isFinished and the accumulator unchanged;
\* after Close on a session that is not finished, the next Recv call
\* surfaces a failure and returns no decoded value (here for an accumulator
\* whose Write succeeds, and with any non-nil error taken for a failure).
C10_Original ==
  [][/\ C10_CloseKeeps
     /\ (closed /\ InLoop /\ Returns /\ Len(results) = closedAt /\ ~writeFails)
          => (Returned.err # Nil /\ Returned.response = ZeroValue)]_vars

\* C10 amended: Close leaves isFinished and the accumulator unchanged; after
\* Close on a session that is not finished, a Recv call that finds no
\* complete line left in the bufio.Reader surfaces a failure and returns no
\* decoded value.
C10_CloseThenFailure ==
  [][/\ C10_CloseKeeps
     /\ (closed /\ InLoop /\ buffered = 0) =>
          /\ Returns
          /\ lastRead'.readErr = ErrBodyClosed
          /\ C10_Failure]_vars

\* Close on an open session; the next call returns a buffered value, the
\* one after it fails
C10_Witness ==
  /\ closedAt >= 1
  /\ Len(results) = closedAt + 2
  /\ results[closedAt + 1].ret = "value"
  /\ LastResult.err = ErrBodyClosed
  /\ ~isFinished
  /\ ErrAccumulator # <<>>

\* C11: isFinished is set only by reading data: [DONE]; after Recv returns
\* a failure (read failure, wrapped server error, decode error, write error,
\* too many empty messages) the session is not finished, and a Recv call on
\* a session that is not finished reads from the line source.
C11_OnlyDoneFinishes ==
  [][/\ (~isFinished /\ isFinished') =>
          /\ InLoop
          /\ lastRead' = [rawLine |-> DoneLine, readErr |-> Nil]
          /\ Returns
          /\ Returned.err = EOF
     /\ (Returns /\ Returned.ret \in {"readFailed", "writeFailed", "tooMany", "decodeFailed"})
          => ~isFinished'
     /\ (pc = "idle" /\ ~isFinished) => ~Returns
     /\ (Returns /\ ~isFinished) => (InLoop /\ reads' >= 1)]_vars

\* a call fails with too many empty messages, the next one reads on and
\* returns a value
C11_Witness ==
  /\ pc = "idle"
  /\ Len(results) = 2
  /\ results[1].err = ErrTooManyEmptyStreamMessages
  /\ results[2].ret = "value"
  /\ reads = 1
  /\ ~isFinished

\* the bytes a non-payload line adds to the accumulator: the trimmed line,
\* without data: for the inline error line
C12_Bytes(v, l) ==
  IF l = ErrorLine THEN ErrorBody
  ELSE IF l = EmptyObjLine THEN <<JsonEmpty>>
  ELSE IF l = InlineErrorLine /\ v = "inline" THEN ErrorBody
  ELSE <<>>

\* the non-payload lines among the first n lines read, concatenated
RECURSIVE C12_NonPayload(_)
C12_NonPayload(n) ==
  IF n = 0 THEN <<>>
  ELSE C12_NonPayload(n - 1) \o C12_Bytes(variant, lines[n])

\* the lines among the first n lines read that reached ErrAccumulator.Write
\* without an error, concatenated
RECURSIVE C12_Written(_)
C12_Written(n) ==
  IF n = 0 THEN <<>>
  ELSE C12_Written(n - 1)
         \o (IF fates[n] = "written" THEN C12_Bytes(variant, lines[n]) ELSE <<>>)

\* C12 as claimed: after any sequence of Recv calls the accumulator holds the
\* concatenation, in order, of every non-payload line consumed so far (here
\* for an accumulator whose Write succeeds).
C12_Original ==
  (pc = "idle" /\ ~writeFails) => ErrAccumulator = C12_NonPayload(Len(lines))

\* C12 amended: the accumulator is never reset and holds the concatenation,
\* in order, of every non-payload line written to it: every non-payload line
\* consumed so far but those whose Write failed and those read on the
\* iteration after an inline error line.
C12_AccumulatorGrows ==
  /\ Len(fates) = Len(lines)
  /\ ErrAccumulator = C12_Written(Len(lines))
  /\ \A i \in 1..Len(lines) :
       fates[i] = "written" => lines[i] \in NonPayloadLines(variant)

\* lines of two Recv calls in the accumulator, the payload between them not
C12_Witness ==
  /\ variant = "inline"
  /\ pc = "idle"
  /\ lines = <<ErrorLine, Payload1, InlineErrorLine>>
  /\ Len(results) = 2
  /\ ErrAccumulator = ErrorBody \o ErrorBody

\* C14 as claimed: every line Recv reads is decoded and returned, reported
\* as a decode error, taken for [DONE] or appended to the accumulator (here
\* for an accumulator whose Write succeeds).
C14_Original ==
  ~writeFails =>
    \A i \in 1..Len(fates) : fates[i] \in {"value", "decodeFailed", "done", "written"}

\* C14 amended: the same, or the line is reported as the accumulator's write
\* error, or it is the line read on the iteration that follows an inline
\* error line of src/stream_reader.go, which is dropped.
C14_LinesAccountedFor ==
  \A i \in 1..Len(fates) :
    \/ fates[i] \in {"value", "decodeFailed", "done", "written"}
    \/ fates[i] = "writeFailed" /\ writeFails
    \/ /\ fates[i] = "dropped"
       /\ variant = "inline"
       /\ i > 1
       /\ lines[i - 1] = InlineErrorLine
       /\ fates[i - 1] = "written"

\* a payload line is dropped after an inline error line; the next call
\* returns the payload after it
C14_Witness ==
  /\ lines = <<InlineErrorLine, Payload1, Payload2>>
  /\ fates = <<"written", "dropped", "value">>
  /\ Len(results) = 2
  /\ results[1].err = WrapError(Detail)
  /\ results[2].response = [ID |-> "2"]

\* C16: the bytes ReadBytes returns next to a read failure are dropped: they
\* are neither decoded nor written to the accumulator, and the result is
\* what the accumulator held before decides.  An unterminated data: [DONE]
\* does not set isFinished, an unterminated payload is not returned, an
\* unterminated error body makes no wrapped error.
C16_FragmentDropped ==
  [][(InLoop /\ lastRead'.readErr # Nil) =>
       /\ Returns
       /\ Returned.response = ZeroValue
       /\ ErrAccumulator' = ErrAccumulator
       /\ isFinished' = isFinished
       /\ fates' = fates
       /\ Returned.err =
            IF ErrAccumulator = ErrorBody THEN WrapError(Detail)
            ELSE IF ErrAccumulator = <<JsonEmpty>> THEN WrapError(NilDetail)
            ELSE lastRead'.readErr]_vars

\* the body ends with data: [DONE] and no LF
C16_Witness ==
  /\ pc = "idle"
  /\ lastRead = [rawLine |-> headerData \o <<DoneMark>>, readErr |-> EOF]
  /\ lines = <<Payload1>>
  /\ Len(results) = 2
  /\ LastResult.err = EOF
  /\ ~isFinished

\* the step reads a line that starts with data: {"error": in the variant
\* with inline detection
C13_ReadsInlineError ==
  /\ variant = "inline"
  /\ InLoop
  /\ lastRead' = [rawLine |-> InlineErrorLine, readErr |-> Nil]

\* the iteration after an inline error line: the call ends on it, with the
\* wrapped server error if the accumulator holds the error body, whatever
\* the read returns
C13_EndsOnNextIteration ==
  (InLoop /\ hasErrorPrefix) =>
    /\ Returns
    /\ ErrAccumulator' = ErrAccumulator
    /\ Returned.ret \notin {"value", "decodeFailed", "done"}
    /\ ErrAccumulator = ErrorBody => Returned.err = WrapError(Detail)

\* C13 as claimed: every such line is appended to the accumulator without
\* its data: prefix and, unless it exceeds the limit, the call ends on the
\* next iteration (here for an accumulator whose Write succeeds).
C13_Original ==
  [][/\ (C13_ReadsInlineError /\ ~writeFails) =>
          /\ ErrAccumulator' = ErrAccumulator \o ErrorBody
          /\ Returns => Returned.err = ErrTooManyEmptyStreamMessages
          /\ ~Returns => hasErrorPrefix'
     /\ C13_EndsOnNextIteration]_vars

\* C13 amended: such a line is never decoded as an event.  Unless it is
\* itself read on the iteration after an inline error line (it is dropped)
\* or the accumulator's Write fails (the write error is returned), it is
\* appended without its data: prefix and, unless it exceeds the limit, the
\* call ends on the very next iteration, with the wrapped server error when
\* the accumulator holds an error detail, whether that read succeeds or not.
C13_InlineErrorLine ==
  [][/\ C13_ReadsInlineError =>
          /\ Returns => Returned.ret \notin {"value", "decodeFailed", "done"}
          /\ (~hasErrorPrefix /\ ~writeFails) =>
               /\ ErrAccumulator' = ErrAccumulator \o ErrorBody
               /\ Returns => Returned.err = ErrTooManyEmptyStreamMessages
               /\ Returns <=> emptyMessagesCount + 1 > EmptyMessagesLimit
               /\ ~Returns => hasErrorPrefix'
          /\ (~hasErrorPrefix /\ writeFails) =>
               /\ ErrAccumulator' = ErrAccumulator
               /\ Returns
               /\ Returned.err = ErrWrite
          /\ hasErrorPrefix =>
               /\ ErrAccumulator' = ErrAccumulator
               /\ Returns
               /\ Returned.ret = "readFailed"
     /\ C13_EndsOnNextIteration]_vars

\* the inline error line, then a payload line read without a failure: the
\* call returns the wrapped server error
C13_Witness ==
  /\ variant = "inline"
  /\ lines = <<InlineErrorLine, Payload1>>
  /\ lastRead = [rawLine |-> Payload1, readErr |-> Nil]
  /\ ErrAccumulator = ErrorBody
  /\ Len(results) = 1
  /\ LastResult.err = WrapError(Detail)

\* no run of consecutive non-payload lines read so far is longer than
\* EmptyMessagesLimit
C15_RunsWithinLimit ==
  \A i, j \in 1..Len(lines) :
    (i <= j /\ \A k \in i..j : lines[k] \in NonPayloadLines(variant))
      => j - i + 1 <= EmptyMessagesLimit

\* C15: emptyMessagesCount starts at zero in every Recv call: while no run
\* of consecutive non-payload lines is longer than EmptyMessagesLimit, no
\* Recv call returns ErrTooManyEmptyStreamMessages, however many non-payload
\* lines the session has read in all.
C15_CounterPerCall ==
  /\ (InLoop /\ reads = 0) => emptyMessagesCount = 0
  /\ (~unrecorded /\ C15_RunsWithinLimit) =>
       \A i \in 1..Len(results) : results[i].err # ErrTooManyEmptyStreamMessages

\* more non-payload lines in the session than the limit, in two calls
C15_Witness ==
  /\ EmptyMessagesLimit = 1
  /\ lines = <<BlankLine, Payload1, EmptyObjLine>>
  /\ ~unrecorded
  /\ pc = "idle"
  /\ Len(results) = 2
  /\ results[1].ret = "value"
  /\ results[2].ret = "readFailed"
  /\ nonPayload = 1

\* C17: on a body in which no line starts, after trimming, with
\* data: {"error": and for every EmptyMessagesLimit, the reader of
\* src/stream_reader.go and the reader of src/unnamed/part_000 return the
\* same results under the same sequence of Recv calls and have, after every
\* call, the same isFinished, the same accumulator and the same position in
\* the body.
C17_VariantsAgree ==
  (\A i \in 1..Len(pair.body) : pair.body[i] # InlineErrorLine)
    => pair.inline = pair.plain

\* three calls on a body with an unprefixed error line between two payloads
\* and a limit of 0: a value, too many empty messages, a value, from both
\* readers
C17_Witness ==
  /\ pair.body = <<Payload1, ErrorLine, Payload2>>
  /\ pair.tail.readErr = EOF
  /\ pair.EmptyMessagesLimit = 0
  /\ Len(pair.inline.results) = 3
  /\ pair.inline.results[1].response = [ID |-> "1"]
  /\ pair.plain.results[2].err = ErrTooManyEmptyStreamMessages
  /\ pair.inline.results[3].response = [ID |-> "2"]
  /\ pair.inline.ErrAccumulator = ErrorBody
  /\ pair.plain.pos = 4

\* C18: CreateChatCompletion returns ErrChatCompletionStreamNotSupported
\* whenever request.Stream is set, also for a model the endpoint does not
\* support; otherwise ErrChatCompletionInvalidModel when the endpoint does
\* not support the model; neither call builds or sends a request, and a
\* request is sent only when both tests pass.
C18_ValidatesFirst ==
  \A i \in 1..Len(chat) :
    LET request == chat[i].request
        out == chat[i].out
        supported == checkEndpointSupportsModel(chatCompletionsSuffix, request.Model)
    IN
    /\ request.Stream =>
         (out.err = ErrChatCompletionStreamNotSupported /\ out.io = <<>>)
    /\ (~request.Stream /\ ~supported) =>
         (out.err = ErrChatCompletionInvalidModel /\ out.io = <<>>)
    /\ (~request.Stream /\ supported) =>
         /\ out.io \in {<<"newRequest">>, <<"newRequest", "sendRequest">>}
         /\ out.err \notin {ErrChatCompletionStreamNotSupported,
                            ErrChatCompletionInvalidModel}
    /\ out.io # <<>> => (~request.Stream /\ supported)

\* a streaming request for an unsupported model, then a request that is sent
C18_Witness ==
  /\ Len(chat) = 2
  /\ chat[1].request = [Stream |-> TRUE, Model |-> "text-davinci-003"]
  /\ chat[1].out.err = ErrChatCompletionStreamNotSupported
  /\ chat[2].out.io = <<"newRequest", "sendRequest">>
  /\ chat[2].out.err = Nil

====
